---------------------------- MODULE Spec2Model ----------------------------
(***************************************************************************)
(* Model of static/js/style.js: the client-side behaviour layer of the     *)
(* social feed (video autoplay controller, chat input handler, realtime    *)
(* event bridge, comment form binder, DOM mutation watcher).               *)
(*                                                                         *)
(* All handlers run on one thread and run to completion.  The handler of   *)
(* the intersection observer walks its batch entry by entry; the model     *)
(* keeps in `pending` how many entries of the batch are still to come (an  *)
(* entry is drawn when the loop reaches it), and no other handler is       *)
(* enabled while a batch is being walked.                                  *)
(*                                                                         *)
(* A text input is read when a handler starts: the handler's action takes  *)
(* the value the user has typed (val) and leaves in the variable the value  *)
(* the input holds when the handler is done.                               *)
(*                                                                         *)
(* `late` holds the videos that came with posts inserted after load and     *)
(* `observed` the videos the intersection observer has been given.         *)
(*                                                                         *)
(* `last`, `out`, `doms` and `dropped` are history variables: the handler   *)
(* step taken last (with its input), the socket events that step emitted,  *)
(* and what the running callback and the comment bridge have seen.         *)
(*                                                                         *)
(* Spec is the whole page.  The three parts of the script share no state    *)
(* but the socket, so each is also given alone: SpecVideo, SpecChat,        *)
(* SpecFeed, and SpecSend for the two outbound events together.            *)
(***************************************************************************)
EXTENDS Integers, Sequences, FiniteSets, TLC

VARIABLES
  paused,      \* video |-> its `paused` attribute              (line 101)
  current,     \* the currently-playing reference, or None     (line 102)
  hidden,      \* document.hidden
  pending,     \* entries of the running batch still to be processed (line 105)
  late,        \* the videos of posts inserted after load      (lines 14-15)
  observed,    \* the videos the intersection observer observes (line 124)
  currentUsername, \* document.body.dataset.username             (line 2)
  hasInput,    \* document.getElementById('messageInput') exists (line 56)
  hasBtn,      \* document.getElementById('sendBtn') exists      (line 57)
  hasMessages, \* document.getElementById('messages') exists     (line 58)
  input,       \* value of #messageInput
  messages,    \* children of #messages, in order
  hasFeed,     \* #posts or #profile-posts exists: the watcher runs (lines 21-22)
  dom,         \* the post elements in the document, in document order
  post,        \* post element |-> its attributes and content, or Absent
  dropped,     \* history: post_ids of the new_comment events that found no
               \* post since a post was last inserted
  doms,        \* history: targets of the dominant entries the running or
               \* last callback has processed, in order
  last,        \* history: the step taken last
  out          \* history: socket events emitted by the last step

videoVars == <<paused, current, hidden, pending, doms, late, observed>>
chatVars == <<currentUsername, hasInput, hasBtn, hasMessages, input, messages>>
feedVars == <<hasFeed, dom, post, dropped>>
vars == <<videoVars, chatVars, feedVars, last, out>>

None == "none"
Undefined == "undefined"

---------------------------------------------------------------------------
(* Strings are sequences of one-character strings.                         *)

WhiteSpace == {" ", "\t"}

RECURSIVE TrimStart(_)
TrimStart(s) ==
  IF s # <<>> /\ Head(s) \in WhiteSpace THEN TrimStart(Tail(s)) ELSE s

RECURSIVE TrimEnd(_)
TrimEnd(s) ==
  IF s # <<>> /\ s[Len(s)] \in WhiteSpace THEN TrimEnd(SubSeq(s, 1, Len(s) - 1)) ELSE s

\* String.prototype.trim, lines 62 and 90
Trim(s) == TrimEnd(TrimStart(s))

\* What the user may have typed into a text input.
Texts ==
  { <<>>, <<" ">>, <<"\t", " ">>,
    <<"a">>, <<" ", "a", " ">>, <<"a", " ", "b">>,
    <<" ", " ", "h", "i", " ", " ">> }

---------------------------------------------------------------------------
(* Video autoplay controller, lines 100-145                                *)

\* document.querySelectorAll('.post video') at load, in document order.
VideoList == <<"v1", "v2", "v3">>
Videos == {VideoList[i] : i \in 1..Len(VideoList)}

\* document.querySelectorAll('.post img') at load.
Images == {"img1"}

\* intersectionRatio in tenths.
Ratios == {0, 5, 6, 10}
Threshold == 6
MaxBatch == 2

Entry == [target : Videos, isIntersecting : BOOLEAN, intersectionRatio : Ratios]

DominantStrict(e) == e.isIntersecting /\ e.intersectionRatio > Threshold

\* line 107
Dominant(e) == e.isIntersecting /\ e.intersectionRatio >= Threshold

\* The calls v.pause() made on the videos of `which`, in NodeList order.
PauseCmds(which) ==
  LET idx == SelectSeq([i \in 1..Len(VideoList) |-> i], LAMBDA i : VideoList[i] \in which)
  IN  [i \in 1..Len(idx) |-> <<"pause", VideoList[idx[i]]>>]

\* line 109: if (current && current !== vid) current.pause()
PauseCurrent(p, cur, vid) ==
  IF cur # None /\ cur # vid
  THEN [paused |-> [p EXCEPT ![cur] = TRUE], cmds |-> <<<<"pause", cur>>>>]
  ELSE [paused |-> p, cmds |-> <<>>]

\* line 110: videos.forEach(v => { if (v !== vid && !v.paused) v.pause(); })
PauseOthers(p, vid) ==
  LET which == {v \in Videos : v # vid /\ ~p[v]}
  IN  [paused |-> [v \in Videos |-> IF v \in which THEN TRUE ELSE p[v]],
       cmds   |-> PauseCmds(which)]

\* line 114-115: vid.play(); a rejected play leaves the element as it was and
\* the rejection is swallowed.
PlayVideo(p, vid, accepted) ==
  [paused |-> IF accepted THEN [p EXCEPT ![vid] = FALSE] ELSE p,
   cmds   |-> <<<<"play", vid>>>>]

\* Mutants of EntryEffect: the other videos are not paused; `current` is not set.
EntryEffectNoPause(e, p, cur, accepted) ==
  LET vid == e.target IN
  IF Dominant(e)
  THEN LET c == PlayVideo(p, vid, accepted)
       IN  [paused |-> c.paused, current |-> vid, cmds |-> c.cmds]
  ELSE [paused  |-> [p EXCEPT ![vid] = TRUE],
        current |-> cur,
        cmds    |-> IF ~p[vid] THEN <<<<"pause", vid>>>> ELSE <<>>]

EntryEffectKeepsCurrent(e, p, cur, accepted) ==
  LET vid == e.target IN
  IF Dominant(e)
  THEN LET a == PauseCurrent(p, cur, vid)
           b == PauseOthers(a.paused, vid)
           c == PlayVideo(b.paused, vid, accepted)
       IN  [paused |-> c.paused, current |-> cur,
            cmds |-> a.cmds \o b.cmds \o c.cmds]
  ELSE [paused  |-> [p EXCEPT ![vid] = TRUE],
        current |-> cur,
        cmds    |-> IF ~p[vid] THEN <<<<"pause", vid>>>> ELSE <<>>]

\* More mutants of EntryEffect: an entry below the threshold unsets the
\* reference when it pauses the referenced video; it pauses every video.
EntryEffectClearsCurrent(e, p, cur, accepted) ==
  LET vid == e.target IN
  IF Dominant(e)
  THEN LET a == PauseCurrent(p, cur, vid)
           b == PauseOthers(a.paused, vid)
           c == PlayVideo(b.paused, vid, accepted)
       IN  [paused |-> c.paused, current |-> vid,
            cmds |-> a.cmds \o b.cmds \o c.cmds]
  ELSE [paused  |-> [p EXCEPT ![vid] = TRUE],
        current |-> IF cur = vid THEN None ELSE cur,
        cmds    |-> IF ~p[vid] THEN <<<<"pause", vid>>>> ELSE <<>>]

EntryEffectPausesAll(e, p, cur, accepted) ==
  LET vid == e.target IN
  IF Dominant(e)
  THEN LET a == PauseCurrent(p, cur, vid)
           b == PauseOthers(a.paused, vid)
           c == PlayVideo(b.paused, vid, accepted)
       IN  [paused |-> c.paused, current |-> vid,
            cmds |-> a.cmds \o b.cmds \o c.cmds]
  ELSE [paused  |-> [v \in Videos |-> TRUE],
        current |-> cur,
        cmds    |-> PauseCmds({v \in Videos : ~p[v]})]

\* lines 106-118: the body of entries.forEach
EntryEffect(e, p, cur, accepted) ==
  LET vid == e.target IN
  IF Dominant(e)
  THEN LET a == PauseCurrent(p, cur, vid)
           b == PauseOthers(a.paused, vid)
           c == PlayVideo(b.paused, vid, accepted)
       IN  [paused |-> c.paused, current |-> vid,
            cmds |-> a.cmds \o b.cmds \o c.cmds]
  ELSE [paused  |-> [p EXCEPT ![vid] = TRUE],
        current |-> cur,
        cmds    |-> IF ~p[vid] THEN <<<<"pause", vid>>>> ELSE <<>>]

PauseAllKeepCurrent ==
  [paused |-> [v \in Videos |-> TRUE], current |-> current, cmds |-> PauseCmds(Videos)]

PauseAllSkipsCurrent ==
  [paused  |-> [v \in Videos |-> IF v = current THEN paused[v] ELSE TRUE],
   current |-> None,
   cmds    |-> PauseCmds(Videos \ {current})]

\* lines 130-131, 135-136, 142-143: videos.forEach(v => v.pause()); current = null
PauseAll ==
  [paused |-> [v \in Videos |-> TRUE], current |-> None, cmds |-> PauseCmds(Videos)]

Idle == pending = 0

Playing == {v \in Videos : ~paused[v]}

\* The observer delivers a batch of n entries: the callback of line 104 starts.
Notify(n) ==
  /\ Idle
  /\ pending' = n
  /\ doms' = <<>>
  /\ last' = [op |-> "notify", n |-> n]
  /\ out' = <<>>
  /\ UNCHANGED <<paused, current, hidden, late, observed, chatVars, feedVars>>

\* One turn of entries.forEach, lines 105-119, on the next entry e of the batch.
ProcessEntry(e, accepted) ==
  /\ pending > 0
  /\ LET r == EntryEffect(e, paused, current, accepted)
     IN  /\ paused' = r.paused
         /\ current' = r.current
         /\ doms' = IF Dominant(e) THEN Append(doms, e.target) ELSE doms
         /\ last' = [op |-> "entry", entry |-> e,
                     k |-> IF last.op = "entry" THEN last.k + 1 ELSE 1,
                     accepted |-> accepted, cmds |-> r.cmds,
                     done |-> pending = 1]
  /\ pending' = pending - 1
  /\ out' = <<>>
  /\ UNCHANGED <<hidden, late, observed, chatVars, feedVars>>

\* lines 128-133
VisibilityChange ==
  /\ Idle
  /\ hidden' = ~hidden
  /\ IF hidden'
     THEN /\ paused' = PauseAll.paused
          /\ current' = PauseAll.current
          /\ last' = [op |-> "hide", cmds |-> PauseAll.cmds, wasPlaying |-> Playing]
     ELSE /\ UNCHANGED <<paused, current>>
          /\ last' = [op |-> "show", cmds |-> <<>>]
  /\ out' = <<>>
  /\ doms' = <<>>
  /\ UNCHANGED <<pending, late, observed, chatVars, feedVars>>

\* lines 134-137
WindowBlur ==
  /\ Idle
  /\ paused' = PauseAll.paused
  /\ current' = PauseAll.current
  /\ last' = [op |-> "blur", cmds |-> PauseAll.cmds, wasPlaying |-> Playing]
  /\ out' = <<>>
  /\ doms' = <<>>
  /\ UNCHANGED <<hidden, pending, late, observed, chatVars, feedVars>>

\* lines 140-145
ImageClick(img) ==
  /\ Idle
  /\ paused' = PauseAll.paused
  /\ current' = PauseAll.current
  /\ last' = [op |-> "imgclick", img |-> img, cmds |-> PauseAll.cmds,
               wasPlaying |-> Playing]
  /\ out' = <<>>
  /\ doms' = <<>>
  /\ UNCHANGED <<hidden, pending, late, observed, chatVars, feedVars>>

\* The videos that come with posts inserted after load.
LateVideos == {"v4"}

\* lines 148-150: observeVideo(v) has an empty body; obs is the set of videos
\* the intersection observer observes.
ObserveVideo(obs, v) == obs

\* lines 5-19 for an added post node that holds the video v and no comment
\* form: vids.forEach(v => observeVideo(v)).  Without the feed container the
\* watcher does not run.
InsertVideoPost(v) ==
  /\ Idle
  /\ v \notin late
  /\ late' = late \cup {v}
  /\ observed' = IF hasFeed THEN ObserveVideo(observed, v) ELSE observed
  /\ last' = [op |-> "insertvideo", video |-> v]
  /\ out' = <<>>
  /\ doms' = <<>>
  /\ UNCHANGED <<paused, current, hidden, pending, chatVars, feedVars>>

\* The visible ratio of the inserted video v changes.  The intersection
\* observer reports observed targets only (line 124): for v no callback runs
\* and no command is issued.
LateVideoVisible(v, isIntersecting, ratio) ==
  /\ Idle
  /\ v \in late
  /\ v \notin observed
  /\ last' = [op |-> "visible",
               entry |-> [target |-> v, isIntersecting |-> isIntersecting,
                          intersectionRatio |-> ratio],
               cmds |-> <<>>]
  /\ out' = <<>>
  /\ doms' = <<>>
  /\ UNCHANGED <<paused, current, hidden, pending, late, observed, chatVars, feedVars>>

\* lines 101-102, 122-125: every video is paused at load, current = null.
InitVideo ==
  /\ paused = [v \in Videos |-> TRUE]
  /\ current = None
  /\ hidden \in BOOLEAN
  /\ pending = 0
  /\ doms = <<>>
  /\ late = {}
  /\ observed = Videos

---------------------------------------------------------------------------
(* Realtime event bridge (messages) and chat input handler, lines 43-83    *)

Users == {"alice", "bob", "carol"}
LocalNames == {"alice", "bob", Undefined}

\* The recipient of line 65, fixed in the script text.
ChatUser == "{{ chat_user }}"

MessageContents == { <<"a">>, <<" ", "y", "o">> }
NewMessageEvent == [sender : Users, recipient : Users, content : MessageContents]

Keys == {"Enter", "a"}
MaxMessages == 2

\* lines 47-49 and 67-69: a div with its className and textContent
MessageDiv(cls, text) == [className |-> cls, textContent |-> text]

ForMeSenderOnly(data) == data.sender = currentUsername

\* line 46
ForMe(data) == data.recipient = currentUsername \/ data.sender = currentUsername

ClassOfByRecipient(data) ==
  IF data.recipient = currentUsername THEN "message from-other" ELSE "message from-me"

\* line 48
ClassOf(data) ==
  IF data.sender = currentUsername THEN "message from-me" ELSE "message from-other"

\* History: the event brings back, under the local username, the content the
\* step before has sent.
Echo(data) ==
  /\ out # <<>>
  /\ out[1].content = data.content
  /\ data.sender = currentUsername

\* lines 44-53: socket.on('new_message')
NewMessage(data) ==
  /\ Idle
  /\ Len(messages) < MaxMessages
  /\ IF hasMessages /\ ForMe(data)
     THEN /\ messages' = Append(messages, MessageDiv(ClassOf(data), data.content))
          /\ last' = [op |-> "new_message", data |-> data, rendered |-> TRUE,
                      echo |-> Echo(data)]
     ELSE /\ UNCHANGED messages
          /\ last' = [op |-> "new_message", data |-> data, rendered |-> FALSE,
                      echo |-> Echo(data)]
  /\ out' = <<>>
  /\ UNCHANGED <<videoVars, feedVars, currentUsername, hasInput, hasBtn, hasMessages, input>>

SendMessageEvent(text) ==
  [event |-> "send_message", recipient |-> ChatUser, content |-> text]

ClickEffectNoTrim(val) ==
  IF ~hasInput
  THEN [out |-> <<>>, messages |-> messages, input |-> input, threw |-> TRUE]
  ELSE IF val = <<>>
  THEN [out |-> <<>>, messages |-> messages, input |-> val, threw |-> FALSE]
  ELSE IF ~hasMessages
  THEN [out |-> <<SendMessageEvent(val)>>, messages |-> messages, input |-> val,
        threw |-> TRUE]
  ELSE [out |-> <<SendMessageEvent(val)>>,
        messages |-> Append(messages, MessageDiv("message from-me", val)),
        input |-> <<>>, threw |-> FALSE]

ClickEffectKeepsInput(val) ==
  LET text == Trim(val) IN
  IF ~hasInput
  THEN [out |-> <<>>, messages |-> messages, input |-> input, threw |-> TRUE]
  ELSE IF text = <<>>
  THEN [out |-> <<>>, messages |-> messages, input |-> val, threw |-> FALSE]
  ELSE IF ~hasMessages
  THEN [out |-> <<SendMessageEvent(text)>>, messages |-> messages, input |-> val,
        threw |-> TRUE]
  ELSE [out |-> <<SendMessageEvent(text)>>,
        messages |-> Append(messages, MessageDiv("message from-me", text)),
        input |-> val, threw |-> FALSE]

\* lines 61-73: the click listener of #sendBtn, run while #messageInput holds
\* val.  input.value on a missing input (line 62) and messagesDiv.appendChild
\* on a missing container (line 70) throw a TypeError, which ends the listener.
ClickEffect(val) ==
  LET text == Trim(val) IN
  IF ~hasInput
  THEN [out |-> <<>>, messages |-> messages, input |-> input, threw |-> TRUE]
  ELSE IF text = <<>>
  THEN [out |-> <<>>, messages |-> messages, input |-> val, threw |-> FALSE]
  ELSE IF ~hasMessages
  THEN [out |-> <<SendMessageEvent(text)>>, messages |-> messages, input |-> val,
        threw |-> TRUE]
  ELSE [out |-> <<SendMessageEvent(text)>>,
        messages |-> Append(messages, MessageDiv("message from-me", text)),
        input |-> <<>>, threw |-> FALSE]

\* What #messageInput can hold when a handler starts.
Typed == IF hasInput THEN Texts ELSE {<<>>}

\* lines 60-74: the user clicks #sendBtn while #messageInput holds val.
SendClick(val) ==
  /\ Idle
  /\ hasBtn
  /\ val \in Typed
  /\ Len(messages) < MaxMessages
  /\ LET r == ClickEffect(val)
     IN  /\ out' = r.out
         /\ messages' = r.messages
         /\ input' = r.input
         /\ last' = [op |-> "click", val |-> val, threw |-> r.threw]
  /\ UNCHANGED <<videoVars, feedVars, currentUsername, hasInput, hasBtn, hasMessages>>

\* Mutant of KeyPress: the key is not looked at.
KeyPressAnyKey(val, key) ==
  /\ Idle
  /\ hasInput
  /\ val \in Typed
  /\ Len(messages) < MaxMessages
  /\ IF hasBtn
     THEN LET r == ClickEffect(val)
          IN  /\ out' = r.out
              /\ messages' = r.messages
              /\ input' = r.input
              /\ last' = [op |-> "keypress", key |-> key, val |-> val,
                          threw |-> r.threw]
     ELSE /\ out' = <<>>
          /\ input' = val
          /\ UNCHANGED messages
          /\ last' = [op |-> "keypress", key |-> key, val |-> val, threw |-> TRUE]
  /\ UNCHANGED <<videoVars, feedVars, currentUsername, hasInput, hasBtn, hasMessages>>

\* lines 76-83: a keypress in #messageInput while it holds val.  btn.click()
\* on a missing button (line 80) throws a TypeError; otherwise it runs the
\* click listener.
KeyPress(val, key) ==
  /\ Idle
  /\ hasInput
  /\ val \in Typed
  /\ Len(messages) < MaxMessages
  /\ IF key = "Enter"
     THEN IF hasBtn
          THEN LET r == ClickEffect(val)
               IN  /\ out' = r.out
                   /\ messages' = r.messages
                   /\ input' = r.input
                   /\ last' = [op |-> "keypress", key |-> key, val |-> val,
                               threw |-> r.threw]
          ELSE /\ out' = <<>>
               /\ input' = val
               /\ UNCHANGED messages
               /\ last' = [op |-> "keypress", key |-> key, val |-> val, threw |-> TRUE]
     ELSE /\ out' = <<>>
          /\ input' = val
          /\ UNCHANGED messages
          /\ last' = [op |-> "keypress", key |-> key, val |-> val, threw |-> FALSE]
  /\ UNCHANGED <<videoVars, feedVars, currentUsername, hasInput, hasBtn, hasMessages>>

\* lines 2 and 56-58: what the page holds at load.
InitChat ==
  /\ currentUsername \in LocalNames
  /\ hasInput \in BOOLEAN
  /\ hasBtn \in BOOLEAN
  /\ hasMessages \in BOOLEAN
  /\ input = <<>>
  /\ messages = <<>>

\* The chat page: all three elements exist.
ChatPage ==
  /\ currentUsername = "alice"
  /\ hasInput = TRUE
  /\ hasBtn = TRUE
  /\ hasMessages = TRUE
  /\ input = <<>>
  /\ messages = <<>>

---------------------------------------------------------------------------
(* Realtime event bridge (comments), comment form binder and DOM mutation  *)
(* watcher, lines 4-41 and 85-98                                           *)

Digits == <<"0", "1", "2", "3", "4", "5", "6", "7", "8", "9">>
DigitChars == {Digits[i] : i \in 1..10}
DigitValue(c) == (CHOOSE i \in 1..10 : Digits[i] = c) - 1

NaN == -1

RECURSIVE DigitPrefix(_)
DigitPrefix(s) ==
  IF s # <<>> /\ Head(s) \in DigitChars THEN <<Head(s)>> \o DigitPrefix(Tail(s)) ELSE <<>>

RECURSIVE DigitsValue(_)
DigitsValue(d) ==
  IF d = <<>> THEN 0 ELSE 10 * DigitsValue(SubSeq(d, 1, Len(d) - 1)) + DigitValue(d[Len(d)])

\* parseInt (lines 32 and 93) on text without a sign: leading white space is
\* skipped, the leading digits are read, and without any the result is NaN.
ParseInt(s) ==
  LET d == DigitPrefix(TrimStart(s))
  IN  IF d = <<>> THEN NaN ELSE DigitsValue(d)

RECURSIVE NumberToString(_)
NumberToString(n) ==
  IF n = NaN THEN <<"N", "a", "N">>
  ELSE IF n < 10 THEN <<Digits[n + 1]>>
  ELSE NumberToString(n \div 10) \o <<Digits[(n % 10) + 1]>>

\* line 32: parseInt(countEl.textContent || "0") + 1, written back as text
IncrementedCountSame(text) == text

IncrementedCount(text) ==
  LET n == ParseInt(IF text = <<>> THEN <<"0">> ELSE text)
  IN  NumberToString(IF n = NaN THEN NaN ELSE n + 1)

\* line 37: li.innerHTML
CommentLi(username, content) ==
  [innerHTML |-> <<"<strong>", username, "</strong>: ">> \o content]

Nodes == {"p1", "p2"}
StaticNode == "p1"
PostIds == {1, 2}
\* post_ids an event may carry: those of the posts and one of no post.
EventPostIds == {1, 2, 3}
Absent == [absent |-> TRUE]

\* The shapes a post element comes in.
PostKinds == {"full", "nocount", "nolist"}

PostElement(kind, id) ==
  [ id       |-> id,
    hasCount |-> kind # "nocount",
    count    |-> IF kind = "full" THEN <<"9">> ELSE <<>>,
    hasList  |-> kind # "nolist",
    list     |-> <<>>,
    hasForm  |-> kind # "nolist",
    formPostId |-> IF kind = "nocount" THEN <<"0">> \o NumberToString(id)
                   ELSE NumberToString(id),
    input    |-> <<>>,
    bound    |-> 0,
    kind     |-> kind,
    applied  |-> 0,
    place    |-> "load" ]

CommentPayloads ==
  { [username |-> "bob", content |-> <<"o", "k">>],
    [username |-> "carol", content |-> <<" ", "a">>] }
NewCommentEvent ==
  { [post_id |-> i, username |-> c.username, content |-> c.content] :
      i \in EventPostIds, c \in CommentPayloads }

MaxComments == 2

Rendered == {dom[i] : i \in 1..Len(dom)}

\* Forgets the data-post-id: the first post of the document.
FindPostFirst(id) == IF dom = <<>> THEN None ELSE dom[1]

\* line 29: document.querySelector('.post[data-post-id="..."]'), the first
\* match in document order, or null
FindPost(id) ==
  LET hits == {i \in 1..Len(dom) : post[dom[i]].id = id}
  IN  IF hits = {} THEN None
      ELSE dom[CHOOSE i \in hits : \A j \in hits : i <= j]

\* lines 31-39
WithComment(p, data) ==
  [p EXCEPT
     !.count = IF p.hasCount THEN IncrementedCount(p.count) ELSE p.count,
     !.list  = IF p.hasList THEN Append(p.list, CommentLi(data.username, data.content))
               ELSE p.list,
     !.applied = p.applied + 1]

TotalApplied == post["p1"].applied + (IF post["p2"] = Absent THEN 0 ELSE post["p2"].applied)

\* lines 28-41: socket.on('new_comment')
NewComment(data) ==
  /\ Idle
  /\ LET n == FindPost(data.post_id) IN
     IF n # None
     THEN /\ TotalApplied < MaxComments
          /\ post' = [post EXCEPT ![n] = WithComment(post[n], data)]
          /\ UNCHANGED dropped
          /\ last' = [op |-> "new_comment", data |-> data, found |-> n, threw |-> FALSE]
     ELSE /\ UNCHANGED post
          /\ dropped' = dropped \cup {data.post_id}
          /\ last' = [op |-> "new_comment", data |-> data, found |-> None,
                      threw |-> FALSE]
  /\ out' = <<>>
  /\ UNCHANGED <<videoVars, chatVars, hasFeed, dom>>

SendCommentEvent(postId, content) ==
  [event |-> "send_comment", post_id |-> postId, content |-> content]

\* What the user may have typed into a comment input.
CommentTexts == { <<>>, <<"\t", " ">>, <<" ", "h", "i", " ">> }

\* lines 87-96: one submit listener of the form of post p, run while the
\* form's comment input holds val
SubmitListenerRendersLocally(p, val) ==
  LET content == Trim(val) IN
  IF content # <<>>
  THEN [out |-> <<SendCommentEvent(ParseInt(p.formPostId), content)>>, input |-> <<>>,
        list |-> Append(p.list, CommentLi("me", content))]
  ELSE [out |-> <<>>, input |-> val, list |-> p.list]

SubmitListenerNoClear(p, val) ==
  LET content == Trim(val) IN
  IF content # <<>>
  THEN [out |-> <<SendCommentEvent(ParseInt(p.formPostId), content)>>, input |-> val,
        list |-> p.list]
  ELSE [out |-> <<>>, input |-> val, list |-> p.list]

SubmitListener(p, val) ==
  LET content == Trim(val) IN
  IF content # <<>>
  THEN [out |-> <<SendCommentEvent(ParseInt(p.formPostId), content)>>, input |-> <<>>,
        list |-> p.list]
  ELSE [out |-> <<>>, input |-> val, list |-> p.list]

\* The k listeners bound to the form run one after the other.
RECURSIVE RunListeners(_, _, _)
RunListeners(k, p, val) ==
  IF k = 0 THEN [out |-> <<>>, input |-> val, list |-> p.list]
  ELSE LET first == SubmitListener(p, val)
           rest  == RunListeners(k - 1, [p EXCEPT !.list = first.list], first.input)
       IN  [out |-> first.out \o rest.out, input |-> rest.input, list |-> rest.list]

\* The user submits the comment form of rendered post n while its input holds
\* val.  A form nothing was bound to is submitted by the browser.
SubmitComment(n, val) ==
  /\ Idle
  /\ n \in Rendered
  /\ post[n].hasForm
  /\ LET r == RunListeners(post[n].bound, post[n], val)
     IN  /\ out' = r.out
         /\ post' = [post EXCEPT ![n].input = r.input, ![n].list = r.list]
         /\ last' = [op |-> "submit", node |-> n, val |-> val,
                     navigated |-> post[n].bound = 0]
  /\ UNCHANGED <<videoVars, chatVars, hasFeed, dom, dropped>>

\* lines 86-97: bindCommentForm adds one submit listener
BindCommentForm(p) == [p EXCEPT !.bound = p.bound + 1]

\* Where a post element is added: as a child of the feed container ("child"),
\* to an element already below the container ("deep"), inside another node
\* that is being added below the container ("nested"), outside the container.
Places == {"child", "deep", "nested", "outside"}

\* lines 7 and 22: the added nodes the watcher's callback is given are the
\* nodes added to the container or, with subtree: true, to an element below
\* it; a node that arrives inside an added node is not among them.
AddedNode(place) == place \in {"child", "deep"}

\* lines 5-19: the mutation callback for one added node.  The node is looked
\* at only if the watcher observes the place and the node itself is the post.
OnNodeAdded(p, place) ==
  IF hasFeed /\ AddedNode(place) /\ p.hasForm THEN BindCommentForm(p) ELSE p

MaxBindings == 2

\* A rendered post is taken out and added again as a child of the feed
\* container (moved to its end): the callback of lines 5-19 sees it as an
\* added node and binds its form once more.
ReinsertPost(n) ==
  /\ Idle
  /\ n \in Rendered
  /\ post[n].bound < MaxBindings
  /\ dom' = Append(SelectSeq(dom, LAMBDA m : m # n), n)
  /\ post' = [post EXCEPT ![n] = OnNodeAdded(post[n], "child")]
  /\ last' = [op |-> "reinsert", node |-> n]
  /\ out' = <<>>
  /\ UNCHANGED <<videoVars, chatVars, hasFeed, dropped>>

\* A post element enters the document, before or after the posts already
\* there.  A data-post-id names one post: no two posts of the document carry
\* the same.
InsertPost(n, kind, id, place, atEnd) ==
  /\ Idle
  /\ n \notin Rendered
  /\ n # StaticNode
  /\ \A m \in Rendered : post[m].id # id
  /\ dom' = IF atEnd THEN Append(dom, n) ELSE <<n>> \o dom
  /\ post' = [post EXCEPT
                ![n] = OnNodeAdded([PostElement(kind, id) EXCEPT !.place = place], place)]
  /\ last' = [op |-> "insert", node |-> n, kind |-> kind, id |-> id, place |-> place,
               missed |-> id \in dropped]
  /\ out' = <<>>
  /\ dropped' = {}
  /\ UNCHANGED <<videoVars, chatVars, hasFeed>>

\* lines 21-22 and 98: the posts of the page as served; every comment form in
\* the document is bound at load.
InitFeed ==
  /\ hasFeed \in BOOLEAN
  /\ dom = <<StaticNode>>
  /\ \E kind \in PostKinds :
       LET p == PostElement(kind, 1)
       IN  post = [n \in Nodes |-> IF n = StaticNode
                                   THEN (IF p.hasForm THEN BindCommentForm(p) ELSE p)
                                   ELSE Absent]
  /\ dropped = {}

\* A feed page with one complete post.
FeedPage ==
  /\ hasFeed = TRUE
  /\ dom = <<StaticNode>>
  /\ post = [n \in Nodes |-> IF n = StaticNode
                              THEN BindCommentForm(PostElement("full", 1))
                              ELSE Absent]
  /\ dropped = {}

InitHistory ==
  /\ last = [op |-> "load"]
  /\ out = <<>>

Init ==
  /\ InitVideo
  /\ InitChat
  /\ InitFeed
  /\ InitHistory

NextVideo ==
  \/ \E n \in 1..MaxBatch : Notify(n)
  \/ \E e \in Entry, accepted \in BOOLEAN : ProcessEntry(e, accepted)
  \/ VisibilityChange
  \/ WindowBlur
  \/ \E img \in Images : ImageClick(img)
  \/ \E v \in LateVideos : InsertVideoPost(v)
  \/ \E v \in LateVideos, i \in BOOLEAN, r \in Ratios : LateVideoVisible(v, i, r)

NextChat ==
  \/ \E data \in NewMessageEvent : NewMessage(data)
  \/ \E val \in Texts : SendClick(val)
  \/ \E val \in Texts, key \in Keys : KeyPress(val, key)

NextFeed ==
  \/ \E data \in NewCommentEvent : NewComment(data)
  \/ \E n \in Nodes, val \in CommentTexts : SubmitComment(n, val)
  \/ \E n \in Nodes, kind \in PostKinds, id \in PostIds, place \in Places,
        atEnd \in BOOLEAN : InsertPost(n, kind, id, place, atEnd)

Next ==
  \/ NextVideo
  \/ NextChat
  \/ NextFeed
  \/ \E n \in Nodes : ReinsertPost(n)

Spec == Init /\ [][Next]_vars

\* The video controller alone, on a page whose other parts stay as loaded.
InitVideoPage == InitVideo /\ ChatPage /\ FeedPage /\ InitHistory
SpecVideo == InitVideoPage /\ [][NextVideo]_vars

\* The chat handlers and the message bridge alone, for every page.
VideoQuiet == InitVideo /\ hidden = FALSE
InitChatPage == VideoQuiet /\ InitChat /\ FeedPage /\ InitHistory
SpecChat == InitChatPage /\ [][NextChat]_vars

\* The comment bridge, the form binder and the watcher alone.
InitFeedPage == VideoQuiet /\ ChatPage /\ InitFeed /\ InitHistory
SpecFeed == InitFeedPage /\ [][NextFeed]_vars

\* The two ways to send (chat send, comment submit) on one page, for every
\* combination of chat elements, with the post re-inserted now and then.
NextSend ==
  \/ \E val \in Texts : SendClick(val)
  \/ \E val \in Texts, key \in Keys : KeyPress(val, key)
  \/ \E n \in Nodes, val \in CommentTexts : SubmitComment(n, val)
  \/ \E n \in Nodes : ReinsertPost(n)

InitSendPage == VideoQuiet /\ InitChat /\ FeedPage /\ InitHistory
SpecSend == InitSendPage /\ [][NextSend]_vars

---------------------------------------------------------------------------
(* Claims about the video autoplay controller, checked under SpecVideo     *)

InSeq(x, s) == \E i \in 1..Len(s) : s[i] = x

\* The claim's own reading of "intersecting with ratio >= 0.6".
AtLeastSixTenths(e) == e.isIntersecting /\ e.intersectionRatio >= 6

\* C1: in every reachable state, also between two entries of a batch, at most
\* one video of the feed is playing.
C1_AtMostOnePlaying == Cardinality(Playing) <= 1

\* A dominant entry has just paused another video and started its own.
C1_Witness ==
  /\ last.op = "entry"
  /\ AtLeastSixTenths(last.entry)
  /\ \E w \in Videos \ {last.entry.target} : InSeq(<<"pause", w>>, last.cmds)
  /\ Playing = {last.entry.target}

\* C2: right after the processing of an entry that reports v intersecting with
\* ratio >= 0.6, every other video is paused, v has been commanded to play and
\* the currently-playing reference is v.
C2_DominantEntryTakesOver ==
  (last.op = "entry" /\ AtLeastSixTenths(last.entry)) =>
     LET v == last.entry.target IN
     /\ \A w \in Videos \ {v} : paused[w]
     /\ InSeq(<<"play", v>>, last.cmds)
     /\ last.cmds[Len(last.cmds)] = <<"play", v>>
     /\ current = v

\* An entry at exactly the threshold took the reference over from a playing video.
C2_Witness ==
  /\ last.op = "entry"
  /\ last.entry.isIntersecting
  /\ last.entry.intersectionRatio = 6
  /\ \E w \in Videos \ {last.entry.target} : last.cmds[1] = <<"pause", w>>
  /\ current = last.entry.target

GlobalPauseOps == {"hide", "blur", "imgclick"}

CallbackDone == last.op = "entry" /\ last.done /\ pending = 0

\* The batch was <<A, B>>, two distinct videos, both intersecting with ratio >= 0.6.
TwoDominant ==
  /\ last.k = 2
  /\ Len(doms) = 2
  /\ doms[1] # doms[2]

\* C8 as stated: after a batch <<A, B>> of two dominant entries B is playing, A
\* is paused and the reference is B; in general the target of the last dominant
\* entry of the batch is the one playing video.
C8_Original ==
  CallbackDone =>
    /\ TwoDominant =>
          /\ ~paused[doms[2]]
          /\ paused[doms[1]]
          /\ current = doms[2]
    /\ doms # <<>> => Playing = {doms[Len(doms)]}

\* C8 amended: after the callback the reference is the target of the last
\* dominant entry and no other video plays; after a batch <<A, B>> of two
\* dominant entries A is paused and B plays exactly when its play command was
\* accepted.
C8_LastDominantWins ==
  CallbackDone =>
    /\ doms # <<>> =>
          /\ current = doms[Len(doms)]
          /\ Playing \subseteq {doms[Len(doms)]}
    /\ TwoDominant =>
          /\ paused[doms[1]]
          /\ ~paused[doms[2]] <=> last.accepted

\* A batch <<A, B>> has been processed and B plays.
C8_Witness ==
  /\ CallbackDone
  /\ TwoDominant
  /\ last.accepted
  /\ Playing = {doms[2]}
  /\ current = doms[2]

\* C12 as stated: every video under the feed, also one that came with a post
\* inserted after load, is commanded to play when its visible ratio reaches
\* 0.6 or more, and a global pause signal issues a pause on it.
C12_Original ==
  /\ [][(last'.op \in {"entry", "visible"} /\ AtLeastSixTenths(last'.entry)) =>
          InSeq(<<"play", last'.entry.target>>, last'.cmds)]_vars
  /\ [][(last'.op \in GlobalPauseOps) =>
          \A v \in Videos \cup late : InSeq(<<"pause", v>>, last'.cmds)]_vars

\* C15 as stated: in every reachable state, if the currently-playing reference
\* is set then the video it identifies is playing.
C15_Original == current # None => ~paused[current]

\* C15 amended: the reference is set only by an entry with ratio >= 0.6, to
\* that entry's video, and unset only by a global pause signal; right after
\* such an entry the referenced video plays if its play command was accepted
\* and is in the play state it had if the command was rejected; an entry below
\* 0.6 leaves the reference as it was, also when it pauses the referenced video.
C15_ReferenceSetUntilGlobalPause ==
  /\ [][current' # current =>
          \/ /\ last'.op = "entry"
             /\ AtLeastSixTenths(last'.entry)
             /\ current' = last'.entry.target
          \/ /\ last'.op \in GlobalPauseOps
             /\ current' = None]_vars
  /\ [][(last'.op = "entry" /\ AtLeastSixTenths(last'.entry)) =>
          /\ current' = last'.entry.target
          /\ last'.accepted => ~paused'[current']
          /\ ~last'.accepted => paused'[current'] = paused[current']]_vars
  /\ [][(last'.op = "entry" /\ ~AtLeastSixTenths(last'.entry)) =>
          current' = current]_vars

\* The reference stays on a playing video that an entry below 0.6 has paused.
C15_Witness ==
  /\ last.op = "entry"
  /\ ~AtLeastSixTenths(last.entry)
  /\ last.cmds = <<<<"pause", last.entry.target>>>>
  /\ current = last.entry.target
  /\ paused[current]

\* C16: in every reachable state, also between two entries of a batch, a
\* playing video is the one the currently-playing reference identifies.
C16_PlayingIsCurrent == \A v \in Videos : ~paused[v] => current = v

\* The second entry of a batch has moved the reference and the playing state
\* from one video to another.
C16_Witness ==
  /\ last.op = "entry"
  /\ last.k = 2
  /\ last.accepted
  /\ Len(last.cmds) = 2
  /\ last.cmds[1][1] = "pause"
  /\ ~paused[last.entry.target]
  /\ current = last.entry.target

\* C17: an entry for v that is not intersecting or has ratio below 0.6 leaves
\* v paused, the play state of every other video as it was and the
\* currently-playing reference as it was, and commands nothing but a pause of v.
C17_LowEntryPausesOnlyItsVideo ==
  [][(last'.op = "entry" /\ ~AtLeastSixTenths(last'.entry)) =>
       LET v == last'.entry.target IN
       /\ paused'[v]
       /\ \A w \in Videos \ {v} : paused'[w] = paused[w]
       /\ current' = current
       /\ last'.cmds = IF paused[v] THEN <<>> ELSE <<<<"pause", v>>>>]_vars

\* An entry at ratio 0.5 for a paused video was processed while another video
\* played: that video plays on and keeps the reference.
C17_Witness ==
  /\ last.op = "entry"
  /\ last.entry.isIntersecting
  /\ last.entry.intersectionRatio = 5
  /\ last.cmds = <<>>
  /\ current \in Videos \ {last.entry.target}
  /\ ~paused[current]

---------------------------------------------------------------------------
(* Claims about the chat, checked under SpecChat                           *)

\* The step just taken handled a new_message event.
IsNewMessage == last'.op = "new_message"

Appended == Len(messages') = Len(messages) + 1

LocalNameMatches(data) ==
  currentUsername = data.sender \/ currentUsername = data.recipient

\* C4 as stated: on every page, a new_message event appends an entry to the
\* chat container exactly when the local username is its sender or recipient.
C4_Original ==
  [][IsNewMessage => (Appended <=> LocalNameMatches(last'.data))]_vars

\* C4 amended: a new_message event appends an entry exactly when the page has
\* the chat container and the local username is the event's sender or its
\* recipient; the entry goes at the end and carries the event's content.
C4_RenderedIffForMe ==
  [][IsNewMessage =>
       /\ Appended <=> (hasMessages /\ LocalNameMatches(last'.data))
       /\ Appended =>
             /\ SubSeq(messages', 1, Len(messages)) = messages
             /\ messages'[Len(messages')].textContent = last'.data.content
       /\ ~Appended => messages' = messages]_vars

\* An event addressed to the local user by somebody else has been rendered.
C4_Witness ==
  /\ last.op = "new_message"
  /\ last.data.recipient = currentUsername
  /\ last.data.sender # currentUsername
  /\ messages # <<>>
  /\ messages[Len(messages)] = MessageDiv("message from-other", last.data.content)

\* The step just taken was a send: a click on the send control, or Enter.
IsSend ==
  \/ last'.op = "click"
  \/ last'.op = "keypress" /\ last'.key = "Enter"

ChatElementsPresent == hasInput /\ hasBtn /\ hasMessages

\* C6: on a page with the chat input, send control and container, a send whose
\* input trims to a non-empty t emits exactly one send_message event
\* {recipient: R, content: t}, appends exactly one 'from-me' entry with content
\* t at the end of the container and leaves the input empty.
C6_SendEmitsRendersClears ==
  [][(IsSend /\ ChatElementsPresent /\ Trim(last'.val) # <<>>) =>
       LET t == Trim(last'.val) IN
       /\ out' = <<[event |-> "send_message", recipient |-> "{{ chat_user }}",
                    content |-> t]>>
       /\ messages' = Append(messages, [className |-> "message from-me",
                                        textContent |-> t])
       /\ input' = <<>>
       /\ last'.val = <<" ", " ", "h", "i", " ", " ">> => t = <<"h", "i">>
       /\ t[1] \notin WhiteSpace /\ t[Len(t)] \notin WhiteSpace]_vars

\* The input "  hi  " has been sent by a click.
C6_Witness ==
  /\ last.op = "click"
  /\ last.val = <<" ", " ", "h", "i", " ", " ">>
  /\ ~last.threw
  /\ Len(out) = 1
  /\ out[1].content = <<"h", "i">>
  /\ messages # <<>>
  /\ messages[Len(messages)] = MessageDiv("message from-me", <<"h", "i">>)
  /\ input = <<>>

\* C13 as stated: whichever of the send control, the text input and the chat
\* container the page has, no click or Enter handler raises an error, and with
\* one of the three missing no send_message event is emitted.
C13_Original ==
  [][IsSend =>
       /\ ~last'.threw
       /\ ~ChatElementsPresent => out' = <<>>]_vars

\* C18: on a page with the chat container, a step leaves the container as it
\* was or appends one entry at its end; a new_message event matching the local
\* username appends one entry with its content, 'from-me' exactly when its
\* sender is the local username; a local send (a click or Enter that sent a
\* send_message event) appends one 'from-me' entry with the content sent; so a
\* message sent locally and delivered back appears twice.
C18_ChatAppendOnly ==
  /\ [][\/ messages' = messages
        \/ /\ Len(messages') = Len(messages) + 1
           /\ SubSeq(messages', 1, Len(messages)) = messages]_vars
  /\ [][(IsNewMessage /\ hasMessages /\ LocalNameMatches(last'.data)) =>
          messages' = Append(messages,
            [className |-> IF last'.data.sender = currentUsername
                           THEN "message from-me" ELSE "message from-other",
             textContent |-> last'.data.content])]_vars
  /\ [][(IsSend /\ hasMessages /\ out' # <<>>) =>
          messages' = Append(messages,
            [className |-> "message from-me", textContent |-> out'[1].content])]_vars
  /\ [][(IsNewMessage /\ hasMessages /\ last'.echo) =>
          /\ Len(messages') = Len(messages) + 1
          /\ messages'[Len(messages')] = messages[Len(messages)]]_vars

\* The message "a" was sent locally and then delivered back: two equal entries.
C18_Witness ==
  /\ last.op = "new_message"
  /\ last.echo
  /\ Len(messages) = 2
  /\ messages[1] = [className |-> "message from-me", textContent |-> <<"a">>]
  /\ messages[2] = messages[1]

IsKeyPress == last'.op = "keypress"

\* C19: on a page with the send control, Enter in the input holding any text
\* leaves the outbound events, the chat container and the input exactly as the
\* click listener run on that text does; on a page without the send control
\* Enter changes none of them; any other key changes none of them.
C19_EnterIsClick ==
  /\ [][(IsKeyPress /\ last'.key = "Enter" /\ hasBtn) =>
          LET r == ClickEffect(last'.val) IN
          /\ out' = r.out
          /\ messages' = r.messages
          /\ input' = r.input]_vars
  /\ [][(IsKeyPress /\ (last'.key # "Enter" \/ ~hasBtn)) =>
          /\ out' = <<>>
          /\ messages' = messages
          /\ input' = last'.val]_vars

\* Enter on the input " a " has sent "a", rendered it and emptied the input.
C19_Witness ==
  /\ last.op = "keypress"
  /\ last.key = "Enter"
  /\ last.val = <<" ", "a", " ">>
  /\ out = <<SendMessageEvent(<<"a">>)>>
  /\ messages # <<>>
  /\ messages[Len(messages)] = MessageDiv("message from-me", <<"a">>)
  /\ input = <<>>

---------------------------------------------------------------------------
(* Claims about sending, checked under SpecSend                            *)

Blank(s) == \A i \in 1..Len(s) : s[i] \in {" ", "\t"}

IsSubmit == last'.op = "submit"

\* C3: a chat send (click or Enter) or a comment-form submit whose input is
\* empty or all white space emits no event and leaves the chat container and
\* the input as they were.
C3_BlankSendsNothing ==
  /\ [][(IsSend /\ Blank(last'.val)) =>
          /\ out' = <<>>
          /\ messages' = messages
          /\ input' = last'.val]_vars
  /\ [][(IsSubmit /\ Blank(last'.val)) =>
          /\ out' = <<>>
          /\ messages' = messages
          /\ post'[last'.node].input = last'.val
          /\ post'[last'.node].list = post[last'.node].list]_vars

\* A white-space-only comment was submitted after a white-space-only chat send.
C3_Witness ==
  /\ last.op = "submit"
  /\ last.val = <<"\t", " ">>
  /\ post[last.node].bound >= 1
  /\ post[last.node].input = <<"\t", " ">>
  /\ input = <<" ">>
  /\ out = <<>>

\* C14: a click, an Enter keypress or a form submit emits at most one event,
\* and a submit with non-blank text of a comment form emits exactly one
\* send_comment event however many times the form has been bound.
C14_OneEventPerAction ==
  /\ [][(IsSend \/ IsKeyPress \/ IsSubmit) => Len(out') <= 1]_vars
  /\ [][(IsSubmit /\ post[last'.node].bound >= 1 /\ ~Blank(last'.val)) =>
          /\ Len(out') = 1
          /\ out'[1].event = "send_comment"
          /\ out'[1].content = Trim(last'.val)]_vars

\* A form bound at load and bound again on re-insertion was submitted with
\* " hi ": one event.
C14_Witness ==
  /\ last.op = "submit"
  /\ post[last.node].bound >= 2
  /\ last.val = <<" ", "h", "i", " ">>
  /\ out = <<SendCommentEvent(1, <<"h", "i">>)>>

---------------------------------------------------------------------------
(* Claims about comments, checked under SpecFeed                           *)

\* C11 as stated: a post with a comment form inserted after load anywhere
\* under the feed container, as a child or nested inside another inserted
\* element, has its form bound: a submit of it with non-blank text emits a
\* send_comment event.
C11_Original ==
  [][(/\ IsSubmit
      /\ hasFeed
      /\ post[last'.node].place \in {"child", "deep", "nested"}
      /\ ~Blank(last'.val))
     => \E i \in 1..Len(out') : out'[i].event = "send_comment"]_vars

IsNewComment == last'.op = "new_comment"

\* The rendered posts that carry data-post-id = id, by position in the document.
WithId(id) == {i \in 1..Len(dom) : post[dom[i]].id = id}

\* The displayed number of a counter text (an empty counter shows nothing: 0).
CounterValue(text) == IF text = <<>> THEN 0 ELSE ParseInt(text)

\* C5: a new_comment event whose post_id no rendered post carries changes no
\* post and raises no error, and a post inserted afterwards shows exactly what
\* it was inserted with: the dropped event is not applied to it.
C5_UnmatchedCommentDropped ==
  /\ [][(IsNewComment /\ WithId(last'.data.post_id) = {}) =>
          /\ post' = post
          /\ dom' = dom
          /\ out' = <<>>
          /\ ~last'.threw]_vars
  /\ [][last'.op = "insert" =>
          /\ post'[last'.node].count = PostElement(last'.kind, last'.id).count
          /\ post'[last'.node].list = <<>>
          /\ \A m \in Nodes \ {last'.node} : post'[m] = post[m]]_vars

\* A post was inserted after an event for its id had been dropped, and it
\* shows nothing of that event.
C5_Witness ==
  /\ last.op = "insert"
  /\ last.missed
  /\ last.kind = "full"
  /\ post[last.node].count = <<"9">>
  /\ post[last.node].list = <<>>

\* C9: a submit of a bound comment form whose input trims to a non-empty c
\* emits one send_comment event {post_id: the form's post id, content: c},
\* empties the input and changes no counter and no comment list; a counter or
\* list of a post changes only in the handling of a new_comment event with
\* that post's id.
C9_SubmitEmitsOnly ==
  /\ [][(IsSubmit /\ post[last'.node].bound >= 1 /\ ~Blank(last'.val)) =>
          /\ out' = <<[event |-> "send_comment", post_id |-> post[last'.node].id,
                       content |-> Trim(last'.val)]>>
          /\ Trim(last'.val)[1] \notin WhiteSpace
          /\ post'[last'.node].input = <<>>
          /\ \A m \in Nodes : post[m] # Absent =>
                /\ post'[m].count = post[m].count
                /\ post'[m].list = post[m].list]_vars
  /\ [][\A m \in Nodes :
          (/\ post[m] # Absent
           /\ \/ post'[m].count # post[m].count
              \/ post'[m].list # post[m].list)
          => (IsNewComment /\ last'.data.post_id = post[m].id)]_vars

\* The comment " hi " was submitted on a form whose data-post-id is zero-padded.
C9_Witness ==
  /\ last.op = "submit"
  /\ last.val = <<" ", "h", "i", " ">>
  /\ post[last.node].bound >= 1
  /\ post[last.node].kind = "nocount"
  /\ out = <<SendCommentEvent(post[last.node].id, <<"h", "i">>)>>
  /\ post[last.node].input = <<>>
  /\ post[last.node].list = <<>>

\* C10: a new_comment event whose post_id a rendered post carries adds exactly
\* 1 to the displayed counter of that post, appends one entry "<strong>username</strong>:
\* content" at the end of its list and changes no other post; so after n
\* events a post's counter and list have each grown by n.
C10_CommentCounted ==
  /\ [][(IsNewComment /\ WithId(last'.data.post_id) # {}) =>
          LET hits == WithId(last'.data.post_id)
              n == dom[CHOOSE i \in hits : \A j \in hits : i <= j]
          IN  /\ post[n].hasCount =>
                    CounterValue(post'[n].count) = CounterValue(post[n].count) + 1
              /\ post[n].hasList =>
                    /\ Len(post'[n].list) = Len(post[n].list) + 1
                    /\ SubSeq(post'[n].list, 1, Len(post[n].list)) = post[n].list
                    /\ post'[n].list[Len(post'[n].list)].innerHTML =
                          <<"<strong>", last'.data.username, "</strong>: ">>
                             \o last'.data.content
              /\ \A m \in Nodes \ {n} : post'[m] = post[m]]_vars
  /\ [](\A m \in Nodes : post[m] # Absent =>
          /\ post[m].hasCount =>
                CounterValue(post[m].count)
                  = CounterValue(PostElement(post[m].kind, post[m].id).count)
                    + post[m].applied
          /\ post[m].hasList => Len(post[m].list) = post[m].applied)

\* Two different comments were delivered to a post while another post was
\* rendered: its counter went from 9 to 11 and its list holds both in order.
C10_Witness ==
  /\ last.op = "new_comment"
  /\ last.found # None
  /\ Len(dom) = 2
  /\ post[last.found].applied = 2
  /\ post[last.found].count = <<"1", "1">>
  /\ Len(post[last.found].list) = 2
  /\ post[last.found].list[1] # post[last.found].list[2]
  /\ post[last.found].list[2] = CommentLi(last.data.username, last.data.content)

=============================================================================
